---- MODULE Spec2Model ----
(***************************************************************************)
(* Model of the wgslsmith generator core: the function registry            *)
(* (FnRegistry), the binding scope (Scope), the built-in signature table   *)
(* (gen_builtin_fns) and struct synthesis (gen_struct_decl).               *)
(*                                                                         *)
(* Random draws (rng.gen_range, choose) are nondeterministic choices over  *)
(* the whole range the code draws from.  To keep the reachable state space *)
(* finite and small, a run may take at most `fuel` draws or driver inputs  *)
(* that differ from the first value of their range; every other draw takes *)
(* the first value.                                                        *)
(***************************************************************************)
EXTENDS Integers, Sequences, FiniteSets, TLC

\* ------------------------------------------------------------------ bounds

\* The choices one run may take off the default path: each function after
\* the first, and each draw or driver input other than the first of its range.
MaxFuel == 1
\* Most bindings the scope driver holds, in the Scope and its clone together.
MaxBindings == 3
\* Most names the scope driver takes, from the Scope and its clone together.
MaxNames == 2
\* Largest member count the struct driver configures.
MaxStructMembers == 11

\* The connections the fxc server accepts in one run.
MaxConns == 3

\* The worker threads of the server's pool (options.parallelism).
Parallelism == 2

\* ------------------------------------------------------------------- types

Some(x) == <<x>>
None == <<>>

\* ast::types::ScalarType, in the order gen_ty lists them.
ScalarTypes == <<"I32", "U32", "Bool">>

\* ast::types::DataType.
Scalar(s) == <<"Scalar", s>>
Vector(n, s) == <<"Vector", n, s>>
StructTy(name) == <<"Struct", name>>


SeqToSet(s) == {s[i] : i \in 1..Len(s)}

RECURSIVE Flatten(_)
Flatten(ss) == IF ss = <<>> THEN <<>> ELSE Head(ss) \o Flatten(Tail(ss))

\* Every scalar and vector type over the three scalar kinds.
BasicTypes ==
    {Scalar(s) : s \in SeqToSet(ScalarTypes)}
        \union {Vector(n, s) : n \in 2..4, s \in SeqToSet(ScalarTypes)}

\* ------------------------------------------------------- built-in signatures

vectors_of(ty) == [i \in 1..3 |-> Vector(i + 1, ty)]

scalar_and_vectors_of(ty) == <<Scalar(ty)>> \o vectors_of(ty)

\* The names gated by options.enabled_fns, with one operand.
BitIdents ==
    <<"countLeadingZeros", "countOneBits", "countTrailingZeros",
      "firstBitHigh", "firstBitLow", "reverseBits">>

OptionalFns == SeqToSet(BitIdents) \union {"extractBits", "insertBits", "dot"}

\* Loop over the bool vectors: all and any.
BoolBuiltins ==
    Flatten([i \in 1..3 |->
        LET ty == vectors_of("Bool")[i] IN
        << <<"all", <<ty>>, Some(Scalar("Bool"))>>,
           <<"any", <<ty>>, Some(Scalar("Bool"))>> >>])

\* The select loop run over the integer kinds only.
SelectBuiltins_NoBool ==
    Flatten([k \in 1..2 |->
        LET s_ty == <<"I32", "U32">>[k] IN
        [i \in 1..4 |->
            LET ty == scalar_and_vectors_of(s_ty)[i] IN
            <<"select", <<ty, ty, Scalar("Bool")>>, Some(ty)>>]
        \o
        [i \in 1..3 |->
            LET n == i + 1 IN
            <<"select",
              <<Vector(n, s_ty), Vector(n, s_ty), Vector(n, "Bool")>>,
              Some(Vector(n, s_ty))>>]])

\* Loop over Bool, I32, U32: select with a scalar and with a vector condition.
SelectBuiltins ==
    Flatten([k \in 1..3 |->
        LET s_ty == <<"Bool", "I32", "U32">>[k] IN
        [i \in 1..4 |->
            LET ty == scalar_and_vectors_of(s_ty)[i] IN
            <<"select", <<ty, ty, Scalar("Bool")>>, Some(ty)>>]
        \o
        [i \in 1..3 |->
            LET n == i + 1 IN
            <<"select",
              <<Vector(n, s_ty), Vector(n, s_ty), Vector(n, "Bool")>>,
              Some(Vector(n, s_ty))>>]])

\* The inner loop body with extractBits pushed whether enabled or not.
IntTypeBuiltins_Ungated(enabled, ty) ==
    << <<"clamp", <<ty, ty, ty>>, Some(ty)>> >>
    \o << <<"abs", <<ty>>, Some(ty)>> >>
    \o SelectSeq([i \in 1..Len(BitIdents) |-> <<BitIdents[i], <<ty>>, Some(ty)>>],
                 LAMBDA sig : sig[1] \in enabled)
    \o << <<"extractBits", <<ty, Scalar("U32"), Scalar("U32")>>, Some(ty)>> >>
    \o (IF "insertBits" \in enabled
        THEN << <<"insertBits", <<ty, ty, Scalar("U32"), Scalar("U32")>>, Some(ty)>> >>
        ELSE <<>>)
    \o << <<"max", <<ty, ty>>, Some(ty)>>, <<"min", <<ty, ty>>, Some(ty)>> >>

\* The inner loop body for one integer type ty.
IntTypeBuiltins(enabled, ty) ==
    << <<"clamp", <<ty, ty, ty>>, Some(ty)>> >>
    \o << <<"abs", <<ty>>, Some(ty)>> >>
    \o SelectSeq([i \in 1..Len(BitIdents) |-> <<BitIdents[i], <<ty>>, Some(ty)>>],
                 LAMBDA sig : sig[1] \in enabled)
    \o (IF "extractBits" \in enabled
        THEN << <<"extractBits", <<ty, Scalar("U32"), Scalar("U32")>>, Some(ty)>> >>
        ELSE <<>>)
    \o (IF "insertBits" \in enabled
        THEN << <<"insertBits", <<ty, ty, Scalar("U32"), Scalar("U32")>>, Some(ty)>> >>
        ELSE <<>>)
    \o << <<"max", <<ty, ty>>, Some(ty)>>, <<"min", <<ty, ty>>, Some(ty)>> >>

\* Loop over I32, U32.
IntBuiltins(enabled) ==
    Flatten([k \in 1..2 |->
        LET s_ty == <<"I32", "U32">>[k] IN
        Flatten([i \in 1..4 |-> IntTypeBuiltins(enabled, scalar_and_vectors_of(s_ty)[i])])
        \o (IF "dot" \in enabled
            THEN [i \in 1..3 |->
                    LET ty == vectors_of(s_ty)[i] IN
                    <<"dot", <<ty, ty>>, Some(Scalar(s_ty))>>]
            ELSE <<>>)])

gen_builtin_fns(enabled) == BoolBuiltins \o SelectBuiltins \o IntBuiltins(enabled)


\* ------------------------------------------------------------------- state

VARIABLES
    pc,       \* the driver: "start" before FnRegistry::new, then "ready"
    options,  \* Options: enabled_fns, min_struct_members, max_struct_members
    sigs,     \* FnRegistry.sigs
    impls,    \* FnRegistry.impls
    count,    \* FnRegistry.count
    stack,    \* the active calls of FnRegistry::gen, innermost last
    op,       \* the call that completed last, with its argument and result
    fuel,     \* non-default draws and inputs the run may still take
    scope,    \* a Scope the scope driver works on
    fork,     \* a clone of it, once taken
    result,   \* what the last gen_struct_decl call returned
    counter,  \* the fxc server's AtomicU64
    pool,     \* the connections the server accepted, in order, as pool jobs
    hist      \* what the run of the server has seen so far

vars ==
    <<pc, options, sigs, impls, count, stack, op, fuel, scope, fork, result,
      counter, pool, hist>>

srvVars == <<counter, pool, hist>>

\* No connection yet: no store(0) has run, no two connections overlapped.
NoHist == [stored |-> 0, overlapped |-> FALSE]

\* The server before its first connection.
ServerIdle == counter = 0 /\ pool = <<>> /\ hist = NoHist

regVars == <<sigs, impls, count, stack>>

scopeVars == <<scope, fork>>

NoOp == [name |-> "none", arg |-> None, ret |-> None]

Call(name, arg, ret) == [name |-> name, arg |-> arg, ret |-> ret]

Cost(isDefault) == IF isDefault THEN 0 ELSE 1

\* The type a default draw yields (first scalar kind, first shape).
DefaultTy == Scalar(ScalarTypes[1])

\* ------------------------------------------------------------------- Scope

empty == [next_name |-> 0, consts |-> <<>>, vars |-> <<>>]

\* A has_vars that asks for any binding.
has_vars_AnyBinding(sc) == sc.consts \o sc.vars # <<>>

has_vars(sc) == sc.vars # <<>>

\* An iter_vars that chains the other way round.
iter_vars_VarsFirst(sc) == sc.vars \o sc.consts

iter_vars(sc) == sc.consts \o sc.vars

\* The outcomes of choose_var: the code unwraps, so there is none on no vars.
choose_var(sc) == SeqToSet(sc.vars)

insert_let(sc, name, data_type) ==
    [sc EXCEPT !.consts = Append(@, <<name, data_type>>)]

\* An insert_var that pushes to the front.
insert_var_Front(sc, name, data_type) ==
    [sc EXCEPT !.vars = <<<<name, data_type>>>> \o @]

insert_var(sc, name, data_type) ==
    [sc EXCEPT !.vars = Append(@, <<name, data_type>>)]

\* A next_var that returns the name after the counter's.
next_var_Ahead(sc) ==
    [name |-> "var_" \o ToString(sc.next_name + 1),
     scope |-> [sc EXCEPT !.next_name = @ + 1]]

next_var(sc) ==
    [name |-> "var_" \o ToString(sc.next_name),
     scope |-> [sc EXCEPT !.next_name = @ + 1]]

\* -------------------------------------------------------------- FnRegistry

\* A len that answers 0 whatever the counter holds.
len_Zero(cnt) == 0

len(cnt) == cnt

contains_type(sg, ty) == \E i \in 1..Len(sg) : sg[i][3] = Some(ty)

\* A filter that asks for a return type, but not for the requested one.
Matching_AnyType(sg, return_ty) == SelectSeq(sg, LAMBDA sig : sig[3] # None)

\* The signatures select's filter lets through, in registration order.
Matching(sg, return_ty) == SelectSeq(sg, LAMBDA sig : sig[3] = Some(return_ty))

\* The outcomes of select: choose(rng) yields one of the filtered signatures,
\* or nothing when there is none.
select(sg, return_ty) ==
    LET m == Matching(sg, return_ty) IN
    IF m = <<>> THEN {None} ELSE {Some(m[i]) : i \in 1..Len(m)}

\* The signature insert computes from a declaration.
SigOf(def) ==
    <<def.name,
      [i \in 1..Len(def.inputs) |-> def.inputs[i].data_type],
      IF def.output = None THEN None ELSE Some(def.output[1].data_type)>>

\* An insert that puts the new signature first.
insert_SigFirst(reg, def) ==
    [sigs |-> <<SigOf(def)>> \o reg.sigs,
     impls |-> Append(reg.impls, def),
     ret |-> SigOf(def)]

insert(reg, def) ==
    [sigs |-> Append(reg.sigs, SigOf(def)),
     impls |-> Append(reg.impls, def),
     ret |-> SigOf(def)]

\* A next_fn that counts but gives every function the first name.
next_fn_Reuse(cnt) == [count |-> cnt + 1, name |-> "func_1"]

\* A next_fn that names the function but leaves the counter alone.
next_fn_Stale(cnt) == [count |-> cnt, name |-> "func_" \o ToString(cnt + 1)]

next_fn(cnt) == [count |-> cnt + 1, name |-> "func_" \o ToString(cnt + 1)]

\* gen_ty from its three draws: the scalar kind, the shape, the vector arity.
gen_ty(s, k, n) ==
    IF k = 0 THEN Scalar(ScalarTypes[s + 1]) ELSE Vector(n, ScalarTypes[s + 1])

\* The draws of gen_ty with the fuel each takes.
TyDraws ==
    {[ty |-> gen_ty(s, 0, 2), cost |-> Cost(s = 0)] : s \in 0..2}
        \union
    {[ty |-> gen_ty(s, 1, n), cost |-> Cost(s = 0) + 1 + Cost(n = 2)] :
        s \in 0..2, n \in 2..4}

\* Parameter lists that name every parameter arg_0.
ArgLists_OneName(n, f) ==
    {[inputs |-> [i \in 1..n |-> [name |-> "arg_0", data_type |-> DefaultTy]],
      cost |-> 0]}

\* The parameter lists of n parameters gen can draw with at most f fuel.
RECURSIVE ArgLists(_, _)
ArgLists(n, f) ==
    IF n = 0 THEN {[inputs |-> <<>>, cost |-> 0]}
    ELSE UNION {
            {[inputs |-> Append(p.inputs,
                            [name |-> "arg_" \o ToString(n - 1), data_type |-> d.ty]),
              cost |-> p.cost + d.cost] :
                d \in {t \in TyDraws : p.cost + t.cost <= f}} :
            p \in ArgLists(n - 1, f)}

\* ------------------------------------------------- expressions and statements
\* The statement and expression synthesizers work on the scope and the
\* registry that gen hands them; what they build is kept as
\*   expression [kind, ty, name]: a literal, a binding reference, a call;
\*   statement  [kind, name, value]: LetDecl, VarDecl, Assignment, Return.

Lit(ty) == [kind |-> "Lit", ty |-> ty, name |-> ""]

VarExpr(ty, name) == [kind |-> "Var", ty |-> ty, name |-> name]

FnCallExpr(ty, name) == [kind |-> "FnCall", ty |-> ty, name |-> name]

Return(value) == [kind |-> "Return", name |-> "", value |-> value]

\* gen_expr without synthesizing a new callee: each expression of type ty
\* that scope sc and signatures sg allow, with the fuel it takes.
gen_expr(ty, sc, sg, f) ==
    IF f <= 0 THEN {[expr |-> Lit(ty), cost |-> 0]} ELSE
    LET m == Matching(sg, ty)
        bound == iter_vars(sc)
    IN  {[expr |-> Lit(ty), cost |-> 0]}
            \union
        {[expr |-> VarExpr(ty, bound[i][1]), cost |-> 1] :
            i \in {j \in 1..Len(bound) : bound[j][2] = ty}}
            \union
        {[expr |-> FnCallExpr(ty, m[i][1]), cost |-> 1 + Cost(i = 1)] :
            i \in 1..Len(m)}

\* What gen_stmt decides before it asks for the statement's expression: the
\* statement kind, the binding it declares or assigns, the expression's type.
StmtHeads(fr) ==
    LET nv == next_var(fr.scope) IN
    {[kind |-> "VarDecl", name |-> nv.name, ty |-> ty, cost |-> Cost(ty = DefaultTy)] :
        ty \in BasicTypes}
        \union
    {[kind |-> "LetDecl", name |-> nv.name, ty |-> ty, cost |-> 1 + Cost(ty = DefaultTy)] :
        ty \in BasicTypes}
        \union
    {[kind |-> "Assignment", name |-> fr.scope.vars[i][1], ty |-> fr.scope.vars[i][2],
      cost |-> 1 + Cost(i = 1)] : i \in 1..Len(fr.scope.vars)}
        \union
    {[kind |-> "Return", name |-> "", ty |-> fr.return_ty, cost |-> 1]}

\* The head of the return statement gen itself appends.
TailHead(fr) == [kind |-> "Return", name |-> "", ty |-> fr.return_ty, cost |-> 0]

\* The scope after the statement with head h: a declaration takes a fresh
\* name and appends its binding.
ScopeAfter(sc, h) ==
    CASE h.kind = "LetDecl" -> insert_let(next_var(sc).scope, h.name, h.ty)
      [] h.kind = "VarDecl" -> insert_var(next_var(sc).scope, h.name, h.ty)
      [] OTHER -> sc

\* The frame with the statement of head h and expression e appended.
Fill(fr, h, e) ==
    [fr EXCEPT !.stmts = Append(@, [kind |-> h.kind, name |-> h.name, value |-> Some(e)]),
               !.scope = ScopeAfter(@, h),
               !.hole = None]

\* --------------------------------------------------------- FnRegistry::gen

\* gen up to the creation of the statement generator: the name, the
\* parameters, the statement count and the empty scope.
GenHeads(cnt, return_ty, f) ==
    UNION {
        {[frame |-> [name |-> next_fn(cnt).name,
                     inputs |-> a.inputs,
                     return_ty |-> return_ty,
                     stmt_count |-> stmt_count,
                     stmts |-> <<>>,
                     scope |-> empty,
                     hole |-> None],
          cost |-> Cost(arg_count = 0) + a.cost + Cost(stmt_count = 5)] :
            a \in ArgLists(arg_count, f), stmt_count \in 5..9} :
        arg_count \in 0..4}

\* The declaration gen assembles from a finished frame.
DeclOf(fr) ==
    [name |-> fr.name,
     inputs |-> fr.inputs,
     output |-> Some([data_type |-> fr.return_ty]),
     body |-> fr.stmts]

Top == stack[Len(stack)]

Below == SubSeq(stack, 1, Len(stack) - 1)

\* A check of the last statement that forgets the statement's kind.
EndsInReturn_AnyStmt(stmts) == stmts # <<>>

\* matches!(stmts.last(), Some(Statement::Return(_))).
EndsInReturn(stmts) == stmts # <<>> /\ stmts[Len(stmts)].kind = "Return"

\* A scope other than the block's own: it holds one binding more, as the
\* scope of a generator that went on past the block would.
into_scope_Other(fr) ==
    insert_var(fr.scope, next_var(fr.scope).name, fr.return_ty)

\* gen.into_scope(): the scope as the block left it.
into_scope(fr) == fr.scope

\* The fuel one more function takes: the first one is free.
FnCost == Cost(Len(impls) + Len(stack) = 0)

\* Options as the command line leaves them; the struct bounds play no part
\* in the registry.
DefaultOptions ==
    [enabled_fns |-> {}, min_struct_members |-> 1, max_struct_members |-> 2]

Init ==
    /\ pc = "start"
    /\ \E enabled \in SUBSET OptionalFns :
        /\ Cardinality(enabled) <= MaxFuel
        /\ options = [DefaultOptions EXCEPT !.enabled_fns = enabled]
        /\ fuel = MaxFuel - Cardinality(enabled)
    /\ sigs = <<>>
    /\ impls = <<>>
    /\ count = 0
    /\ stack = <<>>
    /\ op = NoOp
    /\ scope = empty
    /\ fork = None
    /\ result = None
    /\ ServerIdle

\* FnRegistry::new(options).
New ==
    /\ pc = "start"
    /\ pc' = "ready"
    /\ sigs' = gen_builtin_fns(options.enabled_fns)
    /\ impls' = <<>>
    /\ count' = 0
    /\ op' = Call("new", None, None)
    /\ UNCHANGED <<options, stack, fuel, scopeVars, result, srvVars>>

Idle == pc = "ready" /\ stack = <<>>

\* The types the driver asks the registry about.
QueryTypes == BasicTypes \union {StructTy("S")}

\* The driver calls len().
Len_ ==
    /\ Idle
    /\ op' = Call("len", None, len(count))
    /\ UNCHANGED <<pc, options, regVars, fuel, scopeVars, result, srvVars>>

\* The driver calls contains_type(ty).
ContainsType ==
    /\ Idle
    /\ \E ty \in QueryTypes :
        /\ Cost(ty = DefaultTy) <= fuel
        /\ fuel' = fuel - Cost(ty = DefaultTy)
        /\ op' = Call("contains_type", ty, contains_type(sigs, ty))
    /\ UNCHANGED <<pc, options, regVars, scopeVars, result, srvVars>>

\* The driver calls select(rng, return_ty).
Select ==
    /\ Idle
    /\ \E return_ty \in QueryTypes :
       \E r \in select(sigs, return_ty) :
        LET first == r = None \/ r[1] = Matching(sigs, return_ty)[1]
            c == Cost(return_ty = DefaultTy) + Cost(first)
        IN  /\ c <= fuel
            /\ fuel' = fuel - c
            /\ op' = Call("select", return_ty, r)
    /\ UNCHANGED <<pc, options, regVars, scopeVars, result, srvVars>>

\* The declarations the driver registers itself.
DriverDecls ==
    {[decl |-> [name |-> name, inputs |-> <<>>, output |-> output, body |-> <<>>],
      cost |-> Cost(name = "main") + Cost(output = None)] :
        name \in {"main", "func_1"},
        output \in {None, Some([data_type |-> DefaultTy])}}

\* The driver calls insert(def).
Insert ==
    /\ Idle
    /\ \E d \in DriverDecls :
        LET r == insert([sigs |-> sigs, impls |-> impls], d.decl) IN
        /\ FnCost + d.cost <= fuel
        /\ fuel' = fuel - (FnCost + d.cost)
        /\ sigs' = r.sigs
        /\ impls' = r.impls
        /\ op' = Call("insert", d.decl, r.ret)
    /\ UNCHANGED <<pc, options, count, stack, scopeVars, result, srvVars>>

\* The driver calls gen(rng, return_ty): the call runs to the creation of
\* the statement generator.
Gen ==
    /\ Idle /\ FnCost <= fuel
    /\ \E return_ty \in BasicTypes :
       \E g \in GenHeads(count, return_ty, fuel - FnCost) :
        /\ FnCost + Cost(return_ty = DefaultTy) + g.cost <= fuel
        /\ fuel' = fuel - (FnCost + Cost(return_ty = DefaultTy) + g.cost)
        /\ stack' = <<g.frame>>
        /\ count' = next_fn(count).count
    /\ op' = NoOp
    /\ UNCHANGED <<pc, options, sigs, impls, scopeVars, result, srvVars>>

\* gen_block synthesizes its next statement from the scope so far.
GenStmt ==
    /\ stack # <<>> /\ Top.hole = None /\ Len(Top.stmts) < Top.stmt_count
    /\ \E h \in {x \in StmtHeads(Top) : x.cost <= fuel} :
       \E e \in gen_expr(h.ty, Top.scope, sigs, fuel - h.cost) :
        /\ h.cost + e.cost <= fuel
        /\ fuel' = fuel - (h.cost + e.cost)
        /\ stack' = Append(Below, Fill(Top, h, e.expr))
    /\ op' = NoOp
    /\ UNCHANGED <<pc, options, sigs, impls, count, scopeVars, result, srvVars>>

\* The next statement's expression calls a function that does not exist yet:
\* the expression synthesizer calls gen, and the statement waits for it.
GenStmtCall ==
    /\ stack # <<>> /\ Top.hole = None /\ Len(Top.stmts) < Top.stmt_count
    /\ FnCost <= fuel
    /\ \E h \in {x \in StmtHeads(Top) : x.cost + FnCost <= fuel} :
       \E g \in GenHeads(count, h.ty, fuel - h.cost - FnCost) :
        /\ h.cost + FnCost + g.cost <= fuel
        /\ fuel' = fuel - (h.cost + FnCost + g.cost)
        /\ stack' = Append(Below, [Top EXCEPT !.hole = Some(h)]) \o <<g.frame>>
        /\ count' = next_fn(count).count
    /\ op' = NoOp
    /\ UNCHANGED <<pc, options, sigs, impls, scopeVars, result, srvVars>>

\* The end of gen once the block and the trailing return are there: the
\* declaration is inserted, and a caller waiting for the callee goes on.
Finish(fr, cost) ==
    LET r == insert([sigs |-> sigs, impls |-> impls], DeclOf(fr)) IN
    /\ sigs' = r.sigs
    /\ impls' = r.impls
    /\ fuel' = fuel - cost
    /\ op' = Call("gen", fr.return_ty, r.ret)
    /\ stack' =
        IF Below = <<>> THEN <<>>
        ELSE LET caller == Below[Len(Below)]
                 h == caller.hole[1]
             IN  Append(SubSeq(Below, 1, Len(Below) - 1),
                        Fill(caller, h, FnCallExpr(h.ty, r.ret[1])))
    /\ UNCHANGED <<pc, options, count, scopeVars, result, srvVars>>

\* The block is complete: gen appends a return unless the block ends in one,
\* then inserts the declaration.
GenEnd ==
    /\ stack # <<>> /\ Top.hole = None /\ Len(Top.stmts) >= Top.stmt_count
    /\ IF EndsInReturn(Top.stmts)
       THEN Finish(Top, 0)
       ELSE \E e \in gen_expr(Top.return_ty, into_scope(Top), sigs, fuel) :
                /\ e.cost <= fuel
                /\ Finish(Fill(Top, TailHead(Top), e.expr), e.cost)

\* The trailing return's expression calls a function that does not exist yet.
GenEndCall ==
    /\ stack # <<>> /\ Top.hole = None /\ Len(Top.stmts) >= Top.stmt_count
    /\ ~EndsInReturn(Top.stmts)
    /\ FnCost <= fuel
    /\ \E g \in GenHeads(count, Top.return_ty, fuel - FnCost) :
        /\ FnCost + g.cost <= fuel
        /\ fuel' = fuel - (FnCost + g.cost)
        /\ stack' = Append(Below, [Top EXCEPT !.hole = Some(TailHead(Top))]) \o <<g.frame>>
        /\ count' = next_fn(count).count
    /\ op' = NoOp
    /\ UNCHANGED <<pc, options, sigs, impls, scopeVars, result, srvVars>>

Next ==
    \/ New
    \/ Len_
    \/ ContainsType
    \/ Select
    \/ Insert
    \/ Gen
    \/ GenStmt
    \/ GenStmtCall
    \/ GenEnd
    \/ GenEndCall

Spec == Init /\ [][Next]_vars


\* ------------------------------------------------------------ Scope driver
\* A caller working on one Scope and on a clone of it, by any sequence of
\* the Scope methods.

ScopeInit ==
    /\ pc = "scope"
    /\ options = DefaultOptions
    /\ sigs = <<>> /\ impls = <<>> /\ count = 0 /\ stack = <<>>
    /\ op = NoOp
    /\ fuel = MaxFuel
    /\ scope = empty
    /\ fork = None
    /\ result = None
    /\ ServerIdle

Targets == {"scope"} \union (IF fork = None THEN {} ELSE {"fork"})

Get(which) == IF which = "scope" THEN scope ELSE fork[1]

\* A clone that shares its storage with the scope it was cloned from.
Put_Aliased(which, sc) ==
    /\ scope' = sc
    /\ fork' = IF fork = None THEN fork ELSE Some(sc)

Put(which, sc) ==
    IF which = "scope"
    THEN scope' = sc /\ fork' = fork
    ELSE scope' = scope /\ fork' = Some(sc)

\* The bindings the caller inserts: the name is the one next_var returned
\* last (or "x" before any), or another one; the type the default or bool.
BindingInputs(sc) ==
    LET fresh == {"var_" \o ToString(k) : k \in 0..(sc.next_name - 1)}
        last == IF sc.next_name = 0 THEN "x"
                ELSE "var_" \o ToString(sc.next_name - 1)
    IN  {[name |-> name, ty |-> ty,
          cost |-> Cost(name = last) + Cost(ty = DefaultTy)] :
            name \in fresh \union {"x"}, ty \in {DefaultTy, Scalar("Bool")}}

\* The bindings and the names taken so far, over both scopes.
Held(sc, fk) ==
    Len(iter_vars(sc)) + (IF fk = None THEN 0 ELSE Len(iter_vars(fk[1])))

Taken(sc, fk) == sc.next_name + (IF fk = None THEN 0 ELSE fk[1].next_name)

ScClone ==
    /\ pc = "scope" /\ fork = None
    /\ Held(scope, Some(scope)) <= MaxBindings
    /\ Taken(scope, Some(scope)) <= MaxNames
    /\ fork' = Some(scope)
    /\ op' = Call("clone", "scope", None)
    /\ UNCHANGED <<pc, options, regVars, fuel, scope, result, srvVars>>

ScInsertLet ==
    /\ pc = "scope"
    /\ \E which \in Targets :
       \E b \in BindingInputs(Get(which)) :
        /\ Held(scope, fork) < MaxBindings
        /\ b.cost <= fuel
        /\ fuel' = fuel - b.cost
        /\ Put(which, insert_let(Get(which), b.name, b.ty))
        /\ op' = Call("insert_let", <<which, b.name, b.ty>>, None)
    /\ UNCHANGED <<pc, options, regVars, result, srvVars>>

ScInsertVar ==
    /\ pc = "scope"
    /\ \E which \in Targets :
       \E b \in BindingInputs(Get(which)) :
        /\ Held(scope, fork) < MaxBindings
        /\ b.cost <= fuel
        /\ fuel' = fuel - b.cost
        /\ Put(which, insert_var(Get(which), b.name, b.ty))
        /\ op' = Call("insert_var", <<which, b.name, b.ty>>, None)
    /\ UNCHANGED <<pc, options, regVars, result, srvVars>>

ScNextVar ==
    /\ pc = "scope"
    /\ \E which \in Targets :
        /\ Taken(scope, fork) < MaxNames
        /\ Put(which, next_var(Get(which)).scope)
        /\ op' = Call("next_var", <<which>>, next_var(Get(which)).name)
    /\ UNCHANGED <<pc, options, regVars, fuel, result, srvVars>>

ScHasVars ==
    /\ pc = "scope"
    /\ \E which \in Targets :
        op' = Call("has_vars", <<which>>, has_vars(Get(which)))
    /\ UNCHANGED <<pc, options, regVars, fuel, scopeVars, result, srvVars>>

ScIterVars ==
    /\ pc = "scope"
    /\ \E which \in Targets :
        op' = Call("iter_vars", <<which>>, iter_vars(Get(which)))
    /\ UNCHANGED <<pc, options, regVars, fuel, scopeVars, result, srvVars>>

\* choose_var unwraps the chosen element: with no vars the call panics.
ScChooseVar ==
    /\ pc = "scope"
    /\ \E which \in Targets :
        IF choose_var(Get(which)) = {}
        THEN /\ pc' = "panicked"
             /\ op' = Call("choose_var", <<which>>, None)
             /\ fuel' = fuel
        ELSE /\ pc' = pc
             /\ \E b \in choose_var(Get(which)) :
                 /\ Cost(b = Get(which).vars[1]) <= fuel
                 /\ fuel' = fuel - Cost(b = Get(which).vars[1])
                 /\ op' = Call("choose_var", <<which>>, Some(b))
    /\ UNCHANGED <<options, regVars, scopeVars, result, srvVars>>

ScopeNext ==
    \/ ScClone
    \/ ScInsertLet
    \/ ScInsertVar
    \/ ScNextVar
    \/ ScHasVars
    \/ ScIterVars
    \/ ScChooseVar

ScopeSpec == ScopeInit /\ [][ScopeNext]_vars

\* ----------------------------------------------------------- struct driver

FIELD_NAMES == <<"a", "b", "c", "d", "e", "f", "g", "h", "i", "j">>

\* An index that starts at the second symbol.
FieldName_OffByOne(i) ==
    IF i + 1 < Len(FIELD_NAMES) THEN Some(FIELD_NAMES[i + 2]) ELSE None

\* An index that wraps around the alphabet.
FieldName_Wrap(i) == Some(FIELD_NAMES[(i % Len(FIELD_NAMES)) + 1])

\* FIELD_NAMES[i as usize]: indexing past the end panics.
FieldName(i) == IF i < Len(FIELD_NAMES) THEN Some(FIELD_NAMES[i + 1]) ELSE None

\* The outcomes of gen_range(min..=max): sampling an empty range panics.
MemberCounts(min, max) == min..max

\* The member types ty_reg.select(rng) can yield for n members with at most
\* f fuel: any scalar or vector type, drawn as gen_ty draws one.
RECURSIVE MemberTypes(_, _)
MemberTypes(n, f) ==
    IF n = 0 THEN {[tys |-> <<>>, cost |-> 0]}
    ELSE UNION {
            {[tys |-> Append(p.tys, d.ty), cost |-> p.cost + d.cost] :
                d \in {t \in TyDraws : p.cost + t.cost <= f}} :
            p \in MemberTypes(n - 1, f)}

\* gen_struct_decl once member_count is drawn: the declaration, or nothing
\* when naming a member panics.
gen_struct_decl(member_count, tys, name) ==
    IF \E i \in 0..(member_count - 1) : FieldName(i) = None
    THEN None
    ELSE Some([name |-> name,
               members |-> [i \in 1..member_count |->
                              [name |-> FieldName(i - 1)[1], data_type |-> tys[i]]]])

StructInit ==
    /\ pc = "struct"
    /\ \E min \in 0..MaxStructMembers, max \in 0..MaxStructMembers :
        options = [DefaultOptions EXCEPT !.min_struct_members = min,
                                         !.max_struct_members = max]
    /\ sigs = <<>> /\ impls = <<>> /\ count = 0 /\ stack = <<>>
    /\ op = NoOp
    /\ fuel = MaxFuel
    /\ scope = empty
    /\ fork = None
    /\ result = None
    /\ ServerIdle

\* The driver calls gen_struct_decl(rng, ty_reg, options, name).
GenStructDecl ==
    /\ pc = "struct"
    /\ \E name \in {"Struct_1", "Struct_2"} :
        IF MemberCounts(options.min_struct_members, options.max_struct_members) = {}
        THEN /\ pc' = "panicked"
             /\ result' = None
             /\ fuel' = fuel
             /\ op' = Call("gen_struct_decl", name, None)
        ELSE \E member_count \in
                MemberCounts(options.min_struct_members, options.max_struct_members) :
             \E m \in MemberTypes(member_count, fuel) :
                LET r == gen_struct_decl(member_count, m.tys, name)
                    c == Cost(name = "Struct_1") + m.cost
                IN  /\ c <= fuel
                    /\ fuel' = fuel - c
                    /\ result' = r
                    /\ pc' = IF r = None THEN "panicked" ELSE pc
                    /\ op' = Call("gen_struct_decl", name, Some(member_count))
    /\ UNCHANGED <<options, regVars, scopeVars, srvVars>>

StructNext == GenStructDecl

StructSpec == StructInit /\ [][StructNext]_vars


\* --------------------------------------------------------------- fxc server
\* The accept loop of run() and the jobs it hands to the thread pool.  A job
\* is [req, state, res, seen]: the request its client sends, "queued" until a
\* worker takes it, "running" until the request is handled, then "done";
\* res is the count a GetCount was answered with, seen what the run had
\* seen when the count was loaded.

Requests == {"GetCount", "ResetCount", "Validate"}

\* A fetch_add that loses the increment.
fetch_add_Lost(c) == c

\* counter.fetch_add(1, SeqCst): the new value of the counter.
fetch_add(c) == c + 1

\* counter.load(SeqCst).
load(c) == c

\* counter.store(v, SeqCst).
store(c, v) == v

Job(req) == [req |-> req, state |-> "queued", res |-> None, seen |-> None]

Queued == {i \in 1..Len(pool) : pool[i].state = "queued"}

Running == {i \in 1..Len(pool) : pool[i].state = "running"}

ServerInit ==
    /\ pc = "server"
    /\ options = DefaultOptions
    /\ sigs = <<>> /\ impls = <<>> /\ count = 0 /\ stack = <<>>
    /\ op = NoOp
    /\ fuel = MaxFuel
    /\ scope = empty
    /\ fork = None
    /\ result = None
    /\ ServerIdle

\* One turn of the accept loop: the counter is bumped, then the connection
\* goes to the pool.
Accept ==
    /\ pc = "server" /\ Len(pool) < MaxConns
    /\ \E req \in Requests :
        /\ pool' = Append(pool, Job(req))
        /\ op' = Call("accept", req, None)
    /\ counter' = fetch_add(counter)
    /\ hist' = [hist EXCEPT !.overlapped = @ \/ Queued \union Running # {}]
    /\ UNCHANGED <<options, pc, regVars, fuel, scopeVars, result>>

\* A free worker takes the job that waited longest and reads its request.
Execute ==
    /\ pc = "server"
    /\ Cardinality(Running) < Parallelism
    /\ Queued # {}
    /\ LET i == CHOOSE j \in Queued : \A k \in Queued : j <= k IN
        /\ pool' = [pool EXCEPT ![i].state = "running"]
        /\ op' = Call("execute", i, None)
    /\ UNCHANGED <<options, pc, regVars, fuel, scopeVars, result, counter, hist>>

\* A worker handles the request it read.
Handle ==
    /\ pc = "server"
    /\ \E i \in Running :
        CASE pool[i].req = "GetCount" ->
                /\ pool' = [pool EXCEPT
                        ![i].state = "done",
                        ![i].res = Some(load(counter)),
                        ![i].seen = Some([accepted |-> Len(pool), stored |-> hist.stored])]
                /\ op' = Call("GetCount", i, Some(load(counter)))
                /\ UNCHANGED <<counter, hist>>
          [] pool[i].req = "ResetCount" ->
                /\ counter' = store(counter, 0)
                /\ hist' = [hist EXCEPT !.stored = Len(pool)]
                /\ pool' = [pool EXCEPT ![i].state = "done"]
                /\ op' = Call("ResetCount", i, None)
          [] OTHER ->
                /\ pool' = [pool EXCEPT ![i].state = "done"]
                /\ op' = Call("Validate", i, None)
                /\ UNCHANGED <<counter, hist>>
    /\ UNCHANGED <<options, pc, regVars, fuel, scopeVars, result>>

ServerNext ==
    \/ Accept
    \/ Execute
    \/ Handle

ServerSpec == ServerInit /\ [][ServerNext]_vars


\* ------------------------------------------------------------------ properties

Decls == {"LetDecl", "VarDecl"}

LastOf(q) == q[Len(q)]

\* C1: every function gen produces is registered with the requested return
\* type as its declared output, and the last statement of its body is a
\* return that carries an expression of exactly that type.
C1_GenEndsInTypedReturn ==
    op.name = "gen" =>
        LET def == LastOf(impls) IN
        /\ def.output = Some([data_type |-> op.arg])
        /\ op.ret[3] = Some(op.arg)
        /\ def.body # <<>>
        /\ LastOf(def.body).kind = "Return"
        /\ LastOf(def.body).value # None
        /\ LastOf(def.body).value[1].ty = op.arg

\* gen has returned a function whose block did not end in a return, so that
\* gen appended the trailing one.
C1_Witness ==
    /\ op.name = "gen"
    /\ Len(LastOf(impls).body) >= 2
    /\ LastOf(impls).body[Len(LastOf(impls).body) - 1].kind # "Return"

DeclaredBefore(stmts, i, name) ==
    \E j \in 1..(i - 1) : stmts[j].kind \in Decls /\ stmts[j].name = name

RefsDeclared(stmts) ==
    \A i \in 1..Len(stmts) :
        /\ (stmts[i].value # None /\ stmts[i].value[1].kind = "Var")
                => DeclaredBefore(stmts, i, stmts[i].value[1].name)
        /\ stmts[i].kind = "Assignment" => DeclaredBefore(stmts, i, stmts[i].name)

\* C2: in every function body, finished or in the making, each reference to
\* a binding names a binding that an earlier statement of the same body
\* declared, the trailing return's expression included; and the scope of a
\* body in the making holds exactly the bindings its statements declared.
C2_NoForwardReference ==
    /\ \A i \in 1..Len(impls) : RefsDeclared(impls[i].body)
    /\ \A k \in 1..Len(stack) :
        /\ RefsDeclared(stack[k].stmts)
        /\ {b[1] : b \in SeqToSet(iter_vars(stack[k].scope))}
            = {stack[k].stmts[j].name :
                j \in {x \in 1..Len(stack[k].stmts) : stack[k].stmts[x].kind \in Decls}}

\* A finished function whose trailing return, appended by gen, refers to a
\* binding that the block declared.
C2_Witness ==
    \E i \in 1..Len(impls) :
        LET body == impls[i].body IN
        /\ Len(body) >= 2
        /\ body[Len(body) - 1].kind # "Return"
        /\ LastOf(body).value[1].kind = "Var"

SelectOk(ty, r) ==
    IF r = None
    THEN /\ ~contains_type(sigs, ty)
         /\ \A i \in 1..Len(sigs) : sigs[i][3] # Some(ty)
    ELSE /\ r[1] \in SeqToSet(sigs)
         /\ r[1][3] # None
         /\ r[1][3][1] = ty
         /\ contains_type(sigs, ty)

C4_Inv ==
    /\ op.name = "select" => SelectOk(op.arg, op.ret)
    /\ pc = "ready" =>
        \A ty \in QueryTypes :
            /\ \A r \in select(sigs, ty) : SelectOk(ty, r)
            /\ (None \in select(sigs, ty)) <=> ~contains_type(sigs, ty)

\* C4: select returns a registered signature whose return type is present
\* and equal to the requested type, or nothing; it returns nothing exactly
\* when contains_type is false for that type; and a call of select leaves
\* the signatures, the bodies and the counter as they were.
C4_SelectByReturnType ==
    /\ []C4_Inv
    /\ [][op'.name = "select" => <<sigs, impls, count>>' = <<sigs, impls, count>>]_vars

\* select has returned the signature of a generated function.
C4_Witness ==
    /\ op.name = "select"
    /\ op.ret # None
    /\ op.ret[1][1] = "func_1"

\* The scope a Scope call worked on, before and after the step.
After(which) == IF which = "scope" THEN scope' ELSE fork'[1]

Extends(before, after, binding) == after = Append(before, binding)

\* C5: a call of insert_let or insert_var adds exactly one binding, at the
\* end of its own sequence, and leaves the other sequence, the name counter
\* and every earlier binding as they were.
C5_InsertAppendsOne ==
    [][op'.name \in {"insert_let", "insert_var"} =>
        LET which == op'.arg[1]
            binding == <<op'.arg[2], op'.arg[3]>>
            before == Get(which)
            after == After(which)
        IN  /\ Len(iter_vars(after)) = Len(iter_vars(before)) + 1
            /\ after.next_name = before.next_name
            /\ SubSeq(after.consts, 1, Len(before.consts)) = before.consts
            /\ SubSeq(after.vars, 1, Len(before.vars)) = before.vars
            /\ IF op'.name = "insert_let"
               THEN Extends(before.consts, after.consts, binding)
                    /\ after.vars = before.vars
               ELSE Extends(before.vars, after.vars, binding)
                    /\ after.consts = before.consts]_vars

\* insert_var has run on a scope that held a binding of each kind, under
\* another name.
C5_Witness ==
    /\ op.name = "insert_var"
    /\ op.arg[1] = "scope"
    /\ scope.consts # <<>>
    /\ Len(scope.vars) >= 2
    /\ scope.vars[1][1] # scope.vars[2][1]

Distinct(q) == \A i, j \in 1..Len(q) : i # j => q[i] # q[j]

MemberNames(decl) == [i \in 1..Len(decl.members) |-> decl.members[i].name]

\* C6: with min <= max <= 10 configured, gen_struct_decl returns a struct of
\* the given name whose member count lies in [min, max] (so exactly k when
\* min = max = k) and whose member names are the first symbols of a..j in
\* order, pairwise distinct.
C6_MembersAreAlphabetPrefix ==
    (/\ op.name = "gen_struct_decl"
     /\ options.min_struct_members <= options.max_struct_members
     /\ options.max_struct_members <= 10) =>
        /\ pc # "panicked"
        /\ result # None
        /\ result[1].name = op.arg
        /\ Len(result[1].members) \in
            options.min_struct_members..options.max_struct_members
        /\ Len(result[1].members) = op.ret[1]
        /\ MemberNames(result[1])
            = SubSeq(<<"a", "b", "c", "d", "e", "f", "g", "h", "i", "j">>,
                     1, Len(result[1].members))
        /\ Distinct(MemberNames(result[1]))

\* gen_struct_decl has returned under min = max = 10.
C6_Witness ==
    /\ op.name = "gen_struct_decl"
    /\ options.min_struct_members = 10
    /\ options.max_struct_members = 10
    /\ result # None
    /\ Len(result[1].members) = 10

\* C7: gen_struct_decl never returns a struct with more than ten members or
\* with a repeated member name, and a call whose member count exceeds ten
\* (every call under min = max = 11) panics and returns no struct.
C7_NoStructPastAlphabet ==
    /\ result # None =>
        /\ Len(result[1].members) <= 10
        /\ Distinct(MemberNames(result[1]))
    /\ (op.name = "gen_struct_decl" /\ op.ret # None /\ op.ret[1] > 10) =>
        pc = "panicked" /\ result = None
    /\ (/\ op.name = "gen_struct_decl"
        /\ options.min_struct_members > 10
        /\ options.min_struct_members <= options.max_struct_members) =>
        pc = "panicked" /\ result = None

\* gen_struct_decl has panicked under min = max = 11.
C7_Witness ==
    /\ op.name = "gen_struct_decl"
    /\ options.min_struct_members = 11
    /\ options.max_struct_members = 11
    /\ pc = "panicked"
    /\ result = None

AlwaysPresent == {"all", "any", "select", "clamp", "abs", "max", "min"}

Disabled == OptionalFns \ options.enabled_fns

CallsIn(stmts) ==
    {stmts[j].value[1].name :
        j \in {x \in 1..Len(stmts) :
                stmts[x].value # None /\ stmts[x].value[1].kind = "FnCall"}}

\* C8: once the registry is built, no signature carries the name of an
\* optional built-in that is not enabled, whatever was synthesized since;
\* select returns no such signature, no body calls one, and each built-in
\* signature is an always-present one or an enabled one.
C8_DisabledBuiltinsAbsent ==
    pc = "ready" =>
        /\ \A i \in 1..Len(sigs) : sigs[i][1] \notin Disabled
        /\ \A i \in 1..(Len(sigs) - Len(impls)) :
            sigs[i][1] \in AlwaysPresent \union options.enabled_fns
        /\ (op.name = "select" /\ op.ret # None) => op.ret[1][1] \notin Disabled
        /\ \A i \in 1..Len(impls) : CallsIn(impls[i].body) \cap Disabled = {}
        /\ \A k \in 1..Len(stack) : CallsIn(stack[k].stmts) \cap Disabled = {}

\* gen has returned in a registry built with one optional built-in enabled
\* and the others not.
C8_Witness ==
    /\ op.name = "gen"
    /\ options.enabled_fns # {}
    /\ Disabled # {}
    /\ \E i \in 1..Len(sigs) : sigs[i][1] \in options.enabled_fns

HasSig(name, operand, ret) ==
    \E i \in 1..Len(sigs) :
        /\ sigs[i][1] = name
        /\ sigs[i][2] # <<>>
        /\ sigs[i][2][1] = operand
        /\ sigs[i][3] = Some(ret)

IntTypes ==
    {Scalar(s) : s \in {"I32", "U32"}}
        \union {Vector(n, s) : n \in 2..4, s \in {"I32", "U32"}}

\* C9: whatever is enabled, the registry new builds holds all and any for
\* each bool vector, select for each scalar and vector over bool, i32 and
\* u32, and clamp, min and max for each scalar and vector over i32 and u32;
\* so contains_type holds for each of these types.
C9_MandatoryBuiltinsPresent ==
    pc = "ready" =>
        /\ \A n \in 2..4 :
            /\ HasSig("all", Vector(n, "Bool"), Scalar("Bool"))
            /\ HasSig("any", Vector(n, "Bool"), Scalar("Bool"))
        /\ \A ty \in BasicTypes : HasSig("select", ty, ty)
        /\ \A ty \in IntTypes :
            /\ HasSig("clamp", ty, ty)
            /\ HasSig("min", ty, ty)
            /\ HasSig("max", ty, ty)
        /\ \A ty \in BasicTypes : contains_type(sigs, ty)

\* new has just built the registry with nothing enabled.
C9_Witness ==
    /\ op.name = "new"
    /\ options.enabled_fns = {}
    /\ sigs # <<>>

C10_Inv ==
    pc = "ready" =>
        LET builtins == gen_builtin_fns(options.enabled_fns)
            nb == Len(builtins)
        IN  /\ Len(sigs) = nb + Len(impls)
            /\ SubSeq(sigs, 1, nb) = builtins
            /\ \A i \in 1..Len(impls) :
                /\ sigs[nb + i][1] = impls[i].name
                /\ sigs[nb + i][2]
                    = [j \in 1..Len(impls[i].inputs) |-> impls[i].inputs[j].data_type]
                /\ sigs[nb + i][3]
                    = (IF impls[i].output = None THEN None
                       ELSE Some(impls[i].output[1].data_type))

\* C10: the signature list is the built-in signatures followed by one
\* signature per stored body, in the order of the bodies and with the
\* body's name, parameter types and return type; and no step changes,
\* reorders or removes a signature already in the list.
C10_SigsAreBuiltinsThenBodies ==
    /\ []C10_Inv
    /\ [][pc = "ready" =>
            Len(sigs') >= Len(sigs) /\ SubSeq(sigs', 1, Len(sigs)) = sigs]_vars

\* Two bodies are stored, the first from a gen call nested in the second's.
C10_Witness ==
    /\ Len(impls) = 2
    /\ impls[1].name = "func_2"
    /\ impls[2].name = "func_1"
    /\ stack = <<>>

\* The declarations gen stored: the driver registers only declarations with
\* an empty body, and a body from gen holds five statements or more.
FromGen == SelectSeq(impls, LAMBDA def : def.body # <<>>)

\* The names gen has taken: those of the functions it stored and those of
\* the calls still at work on their body.
GenNames ==
    [i \in 1..Len(FromGen) |-> FromGen[i].name]
        \o [k \in 1..Len(stack) |-> stack[k].name]

BuiltinNames == AlwaysPresent \union OptionalFns

C11_Inv ==
    /\ Distinct(GenNames)
    /\ \A i \in 1..Len(GenNames) :
        /\ GenNames[i] \notin BuiltinNames
        /\ \E k \in 1..count : GenNames[i] = "func_" \o ToString(k)
    /\ pc = "ready" =>
        \A i \in 1..(Len(sigs) - Len(impls)) : sigs[i][1] \in BuiltinNames

\* C11: the names gen gives its functions, nested calls included, are
\* pairwise distinct and none is a built-in's name; a call takes its name
\* from the counter when it starts, before any statement of its body
\* exists, and the counter never decreases.
C11_GenNamesDistinct ==
    /\ []C11_Inv
    /\ [][/\ count' >= count
          /\ Len(stack') > Len(stack) =>
                /\ count' = count + 1
                /\ stack'[Len(stack')].name = "func_" \o ToString(count')
                /\ stack'[Len(stack')].stmts = <<>>]_vars

\* Two functions of gen are stored, one from a call nested in the other's,
\* and the driver registered nothing itself.
C11_Witness ==
    /\ Len(FromGen) = 2
    /\ Len(impls) = 2
    /\ stack = <<>>
    /\ op.name = "gen"

\* C12 as first stated: len() is the number of stored
\* bodies, after any completed insert and gen calls.
C12_LenIsBodyCount ==
    op.name = "len" => op.ret = Len(impls)

\* C12, restated: len() is the number of gen calls started, it is 0 after
\* new, and insert never changes it; so with no call of gen at work it is
\* the number of bodies gen stored, and the stored bodies are that many plus
\* the declarations registered by insert directly.
C12_LenCountsGenCalls ==
    /\ [](/\ op.name = "new" => count = 0
          /\ pc = "ready" => count = Len(FromGen) + Len(stack)
          /\ op.name = "len" =>
                /\ op.ret = Len(FromGen)
                /\ op.ret <= Len(impls)
                /\ op.ret <= Len(sigs) - Len(gen_builtin_fns(options.enabled_fns)))
    /\ [][op'.name = "insert" => count' = count]_vars

\* len() has answered 1 with two bodies stored, one of them registered by
\* insert.
C12_Witness ==
    /\ op.name = "len"
    /\ op.ret = 1
    /\ Len(impls) = 2

\* The scope a completed Scope call was made on.
Target == Get(op.arg[1])

\* C13: choose_var panics exactly when the scope holds no mutable binding,
\* immutable ones or not, which is exactly when has_vars is false;
\* otherwise it returns an element of the mutable sequence, and either way
\* the scope stays as it was.
C13_ChooseVarNeedsVars ==
    /\ [](op.name = "choose_var" =>
            /\ (pc = "panicked") <=> (op.ret = None)
            /\ (op.ret = None) <=> ~has_vars(Target)
            /\ (op.ret = None) <=> (Target.vars = <<>>)
            /\ op.ret # None => \E i \in 1..Len(Target.vars) : op.ret[1] = Target.vars[i])
    /\ [](pc = "panicked" => op.name = "choose_var")
    /\ [][op'.name = "choose_var" => scopeVars' = scopeVars]_vars

\* choose_var has panicked on a scope that holds an immutable binding.
C13_Witness ==
    /\ op.name = "choose_var"
    /\ pc = "panicked"
    /\ Target.consts # <<>>

\* The scope a Scope call did not work on, before and after the step.
OtherUnchanged(which) ==
    IF which = "scope" THEN fork' = fork ELSE scope' = scope

\* C14: clone yields a scope with the bindings and the counter of the
\* original at that moment and leaves the original alone; after it, an
\* insert_let, insert_var or next_var on either of the two leaves the
\* other's sequences and counter as they were.
C14_ForkIsolated ==
    [][/\ op'.name = "clone" => fork' = Some(scope) /\ scope' = scope
       /\ op'.name \in {"insert_let", "insert_var", "next_var"} =>
            OtherUnchanged(op'.arg[1])]_vars

\* After the clone both scopes went their own way: the original took a
\* binding, the clone took a name and another binding.
C14_Witness ==
    /\ fork # None
    /\ op.name \in {"insert_let", "insert_var"}
    /\ op.arg[1] = "fork"
    /\ fork[1].next_name > scope.next_name
    /\ Len(iter_vars(scope)) >= 1
    /\ Len(iter_vars(fork[1])) >= 1
    /\ iter_vars(scope) # iter_vars(fork[1])

\* C15: iter_vars yields each binding once, the immutable ones in the order
\* they were inserted, then the mutable ones in the order they were
\* inserted, whatever the order of the insertions among each other; it
\* yields nothing on the empty scope, changes nothing, and so yields the
\* same when asked again.
C15_IterVarsOrder ==
    /\ [](op.name = "iter_vars" =>
            /\ Len(op.ret) = Len(Target.consts) + Len(Target.vars)
            /\ SubSeq(op.ret, 1, Len(Target.consts)) = Target.consts
            /\ SubSeq(op.ret, Len(Target.consts) + 1, Len(op.ret)) = Target.vars
            /\ Target = empty => op.ret = <<>>)
    /\ [][op'.name = "iter_vars" =>
            /\ scopeVars' = scopeVars
            /\ (op.name = "iter_vars" /\ op.arg = op'.arg) => op'.ret = op.ret]_vars

\* iter_vars has yielded the immutable binding var_1 before the mutable
\* binding var_0.
C15_Witness ==
    /\ op.name = "iter_vars"
    /\ Len(op.ret) = 2
    /\ op.ret[1][1] = "var_1"
    /\ op.ret[2][1] = "var_0"
    /\ Target.consts # <<>>
    /\ Target.vars # <<>>

\* The names bound in a scope, in iteration order.
BoundNames(sc) == [i \in 1..Len(iter_vars(sc)) |-> iter_vars(sc)[i][1]]

\* The names next_var has returned on a scope that began empty.
Returned(sc) == {"var_" \o ToString(k) : k \in 0..(sc.next_name - 1)}

\* The name next_var returned last on a scope, if it returned any.
LastName(sc) ==
    IF sc.next_name = 0 THEN None ELSE Some("var_" \o ToString(sc.next_name - 1))

\* The scope's names are pairwise distinct and are names next_var returned.
Fresh(sc) ==
    /\ Distinct(BoundNames(sc))
    /\ \A i \in 1..Len(BoundNames(sc)) : BoundNames(sc)[i] \in Returned(sc)

\* What next_var does in one step, in both statements of C19.
NextVarStep ==
    op'.name = "next_var" =>
        LET before == Get(op'.arg[1])
            after == After(op'.arg[1])
        IN  /\ op'.ret = "var_" \o ToString(before.next_name)
            /\ after.next_name = before.next_name + 1
            /\ after.consts = before.consts
            /\ after.vars = before.vars
            /\ op'.ret \notin Returned(before)
            /\ Fresh(before) => Fresh(after)

\* C19 as first stated: an insertion under the name
\* next_var returned last keeps the names of the scope pairwise distinct.
C19_LastNameKeepsDistinct ==
    [][/\ NextVarStep
       /\ op'.name \in {"insert_let", "insert_var"} =>
            LET before == Get(op'.arg[1])
                after == After(op'.arg[1])
            IN  (Fresh(before) /\ Some(op'.arg[2]) = LastName(before))
                    => Distinct(BoundNames(after))]_vars

\* C19, restated: next_var returns var_n for the counter n before the
\* call, advances the counter by one and leaves both sequences alone, so
\* the names it returns on one scope are pairwise distinct, from var_0 on a
\* scope that began empty; and the names of a scope stay pairwise distinct
\* if each insertion uses the name next_var returned last and that name is
\* not bound yet, that is, if each returned name is used at most once.
C19_FreshNameUsedOnce ==
    /\ [](\A j, k \in 0..MaxNames : j # k => ToString(j) # ToString(k))
    /\ [][/\ NextVarStep
          /\ op'.name \in {"insert_let", "insert_var"} =>
                LET before == Get(op'.arg[1])
                    after == After(op'.arg[1])
                IN  (/\ Fresh(before)
                     /\ Some(op'.arg[2]) = LastName(before)
                     /\ \A i \in 1..Len(BoundNames(before)) :
                            BoundNames(before)[i] # op'.arg[2])
                        => Fresh(after)]_vars

\* Two names were taken and each was bound once: the scope holds var_0 and
\* var_1.
C19_Witness ==
    /\ op.name \in {"insert_let", "insert_var"}
    /\ op.arg[1] = "scope"
    /\ op.arg[2] = "var_1"
    /\ scope.next_name = 2
    /\ Len(BoundNames(scope)) = 2
    /\ Fresh(scope)

\* C16: under a member-count range whose maximum is past the ten symbols,
\* every call of gen_struct_decl fails and returns no struct, whichever
\* member count it draws.
C16_MaxPastAlphabetAlwaysFails ==
    (op.name = "gen_struct_decl" /\ options.max_struct_members > 10) =>
        pc = "panicked" /\ result = None

SigNames == {sigs[i][1] : i \in 1..Len(sigs)}

\* Only gen has registered functions so far.
OnlyGen == Len(FromGen) = Len(impls)

C17_Inv ==
    OnlyGen =>
        /\ \A k \in 1..Len(stack) :
            /\ stack[k].name \notin SigNames
            /\ \A ty \in BasicTypes : \A r \in select(sigs, ty) :
                r # None => r[1][1] # stack[k].name
            /\ CallsIn(stack[k].stmts)
                \subseteq BuiltinNames \union {impls[j].name : j \in 1..Len(impls)}
            /\ \A j \in 1..Len(stack) : stack[j].name \notin CallsIn(stack[k].stmts)
        /\ \A i \in 1..Len(impls) :
            CallsIn(impls[i].body)
                \subseteq BuiltinNames \union {impls[j].name : j \in 1..(i - 1)}

\* C17: while gen works on a function, neither the signature list nor
\* select holds that function, and its signature appears in the step that
\* stores its complete body, trailing return included; so each call in a
\* body goes to a built-in or to a function stored earlier, and no chain of
\* calls among generated functions leads back to where it started.
C17_VisibleOnlyWhenComplete ==
    /\ []C17_Inv
    /\ [][(OnlyGen /\ Len(sigs') > Len(sigs) /\ op'.name = "gen") =>
            /\ stack # <<>>
            /\ Len(sigs') = Len(sigs) + 1
            /\ sigs'[Len(sigs')][1] = Top.name
            /\ LastOf(impls').name = Top.name
            /\ Len(LastOf(impls').body) >= Top.stmt_count
            /\ LastOf(LastOf(impls').body).kind = "Return"]_vars

\* A stored function calls the function that gen stored before it.
C17_Witness ==
    /\ OnlyGen
    /\ Len(impls) = 2
    /\ impls[1].name \in CallsIn(impls[2].body)

ResetsBefore(i) == {j \in 1..(i - 1) : pool[j].req = "ResetCount"}

Max(S) == CHOOSE x \in S : \A y \in S : y <= x

\* The connections accepted after the last ResetCount connection accepted
\* before connection i, up to and including connection i.
SinceLastResetAccepted(i) ==
    IF ResetsBefore(i) = {} THEN i ELSE i - Max(ResetsBefore(i))

Answered == {i \in 1..Len(pool) : pool[i].res # None}

\* C20 as first stated: a GetCount is answered with the
\* number of connections accepted after the last ResetCount connection
\* accepted before it, itself included, under every interleaving; with no
\* ResetCount before it, with the connections accepted up to itself or up
\* to its load, whichever is meant by the total.
C20_CountSinceLastResetAccepted ==
    \A i \in Answered :
        IF ResetsBefore(i) = {}
        THEN pool[i].res[1] \in {i, pool[i].seen[1].accepted}
        ELSE pool[i].res[1] = SinceLastResetAccepted(i)

\* C20, restated: the accept loop adds one to the counter for each
\* connection, whatever its request and before a worker reads it, and only
\* a ResetCount handled by a worker changes it otherwise, to 0.  So a
\* GetCount is answered with the number of connections accepted between the
\* last store of 0 that ran and its own load, or with all accepted before
\* its load if no store ran; this is the number first stated when every
\* connection is handled before the next is accepted.
C20_CountSinceLastStore ==
    /\ [](/\ counter = Len(pool) - hist.stored
          /\ \A i \in Answered :
                /\ pool[i].res[1] = pool[i].seen[1].accepted - pool[i].seen[1].stored
                /\ pool[i].seen[1].accepted >= i
                /\ pool[i].seen[1].stored <= pool[i].seen[1].accepted
                /\ \/ pool[i].seen[1].stored = 0
                   \/ \E j \in 1..pool[i].seen[1].stored :
                        pool[j].req = "ResetCount" /\ pool[j].state = "done"
                /\ ~hist.overlapped => pool[i].res[1] = SinceLastResetAccepted(i))
    /\ [][/\ Len(pool') > Len(pool) => counter' = counter + 1
          /\ (Len(pool') = Len(pool) /\ op'.name # "ResetCount") => counter' = counter
          /\ op'.name = "ResetCount" => counter' = 0]_vars

\* A GetCount was answered, after a store of 0 ran and with connections
\* in flight together, with another number than first stated.
C20_Witness ==
    /\ hist.overlapped
    /\ hist.stored > 0
    /\ \E i \in Answered : pool[i].res[1] # SinceLastResetAccepted(i)

====
